---- MODULE Spec2Model ----
(***************************************************************************)
(* State-machine model of the DefectDojo report importers:                 *)
(*   defect_dojo_reimporter_v1.2.py   (the full resolve/reimport variant)  *)
(*   defect_dojo_importer.py          (the simple import-only variant)     *)
(* The backend (HTTP API), the settings file and the report directory are  *)
(* the environment: every response is drawn from a small set, a transport  *)
(* error is one of the outcomes of every request.                          *)
(***************************************************************************)
EXTENDS Integers, Sequences, FiniteSets, TLC

(* ------------------------------ bounds -------------------------------- *)
\* files listed in the report directory
MaxFiles == 2
\* products the backend accepts in all
MaxProducts == 3
\* product types, engagements, tests in one search response
MaxPTypes == 2
MaxEngagements == 1
MaxTests == 3

(* ------------------------- program constants -------------------------- *)
StatusOK == 200
StatusCreated == 201
\* Python's None; identities are positive integers
None == 0 - 1
ScanType == "HCL AppScan on Cloud SAST XML"
PlaceholderDescription == "Automatically created by import script"
\* config['configuration']['product_type_name']
product_type_name == "Web"

(* ---------------------------- environment ----------------------------- *)
ProductNames == {"PayGateway"}
EngagementNames == {"Nightly-SAST"}
\* text of an element that is absent or empty: ElementTree gives None
NoText == ""
GetStatuses == {StatusOK, 500}
CreateStatuses == {StatusCreated, StatusOK, 400}
UploadStatuses == {StatusCreated, StatusOK, 400}
\* response.content of an upload that was refused
Bodies == {"detail"}
\* 'updated' timestamps: T0 and a later T1
Stamps == {1, 2}

\* the content of one report file
Files ==
  [kind : {"unreadable", "malformed"}, app : {NoText}, scan : {NoText}]
  \cup [kind : {"parsed"}, app : ProductNames \cup {NoText},
        scan : EngagementNames \cup {NoText}]

Range(s) == {s[i] : i \in 1..Len(s)}

\* sequences of length 0..n of distinct elements of S
RECURSIVE DistinctSeqs(_, _)
DistinctSeqs(S, n) ==
  IF n = 0 THEN {<<>>}
  ELSE LET shorter == DistinctSeqs(S, n - 1)
       IN shorter \cup {Append(p[1], p[2]) :
                          p \in {q \in shorter \X S : q[2] \notin Range(q[1])}}

\* Python truthiness of an identity: None and 0 are false (the identities the
\* backend hands out are positive)
Truthy(x) == x # None /\ x # 0

VARIABLES
  pc,              \* position of the full variant in main()
  fatal,           \* the startup condition that ended the run, or "none"
  printed,         \* lines printed outside the per-report loop
  exitStatus,      \* exit status of the process once it has exited, else None
  nfiles,          \* len(xml_files)
  idx,             \* position in xml_files (1-based)
  file,            \* content of the current report file
  product_name, engagement_name,
  prod_type_id, product_id, engagement_id, test_id,
  exc,             \* class of the exception in flight, or "none"
  products,        \* backend: the products, in id order
  reqs,            \* requests issued for the current report
  log,             \* lines printed for the current report
  invoked,         \* upload operations called for the current report
  errs,            \* error events of the current report
  productSearch,   \* response to the product search of the current report
  engagementSearch,\* response to its engagement search
  testSearch,      \* response to its test search
  upload,          \* outcome of its upload
  visited,         \* reports whose iteration has ended
  failed,          \* reports whose iteration ended in an except clause
  resolved,        \* the get_product_id call of the current report
  prevResolved,    \* the get_product_id call of the report before it
  s_pc, s_exc, s_names, s_reqs, s_log, s_upload  \* the simple variant

top == <<fatal, printed, exitStatus, nfiles>>
locals == <<product_name, engagement_name, prod_type_id, product_id,
            engagement_id, test_id>>
seen == <<productSearch, engagementSearch, testSearch, upload>>
counters == <<visited, failed>>
svars == <<s_pc, s_exc, s_names, s_reqs, s_log, s_upload>>
vars == <<pc, top, idx, file, locals, exc, products, reqs, log, invoked, errs,
          seen, counters, resolved, prevResolved, svars>>

NoResponse == [status_code |-> None, results |-> <<>>]
NoUpload == [outcome |-> "none", status_code |-> None, content |-> ""]
NoFile == [kind |-> "none", app |-> NoText, scan |-> NoText]
NoResolve ==
  [name |-> NoText, prod_type |-> None, id |-> None, before |-> 0,
   after |-> 0, created |-> FALSE]

(* ------------------------------ startup ------------------------------- *)
\* what the interpreter exits with: 1 when an exception leaves the script
ExitStatusOf(uncaught) == IF uncaught THEN 1 ELSE 0

\* get_auth_token: the token, or the exception raised
get_auth_token(response) ==
  IF response.status_code = StatusOK
  THEN IF response.hasToken THEN "token" ELSE "KeyError"
  ELSE "Exception"

Fatal(cause) ==
  /\ pc' = "top_except"
  /\ fatal' = cause
  /\ UNCHANGED <<printed, exitStatus, nfiles>>

Proceed(next) ==
  /\ pc' = next
  /\ UNCHANGED top

\* main: settings.ini must exist
LoadSettings ==
  /\ pc = "load_settings"
  /\ \E exists \in BOOLEAN :
       IF exists THEN Proceed("authenticate") ELSE Fatal("settings_missing")
  /\ UNCHANGED <<idx, file, locals, exc, products, reqs, log, invoked, errs,
                 seen, counters, resolved, prevResolved, svars>>

\* main: api_key, else username and password exchanged for a token
Authenticate ==
  /\ pc = "authenticate"
  /\ \E hasKey \in BOOLEAN, hasUserPass \in BOOLEAN :
       IF hasKey THEN Proceed("read_configuration")
       ELSE IF ~hasUserPass THEN Fatal("credentials_missing")
       ELSE \/ Fatal("auth_failed")          \* the token request itself fails
            \/ \E st \in {StatusOK, 401}, tok \in BOOLEAN :
                 LET r == get_auth_token([status_code |-> st, hasToken |-> tok])
                 IN IF r = "token" THEN Proceed("read_configuration")
                    ELSE IF r = "KeyError" THEN Fatal("credentials_missing")
                    ELSE Fatal("auth_failed")
  /\ UNCHANGED <<idx, file, locals, exc, products, reqs, log, invoked, errs,
                 seen, counters, resolved, prevResolved, svars>>

\* main: product_type_name under [configuration]
ReadConfiguration ==
  /\ pc = "read_configuration"
  /\ \E has \in BOOLEAN :
       IF has THEN Proceed("list_reports")
       ELSE Fatal("product_type_name_missing")
  /\ UNCHANGED <<idx, file, locals, exc, products, reqs, log, invoked, errs,
                 seen, counters, resolved, prevResolved, svars>>

\* main: the report directory and its listing
ListReports ==
  /\ pc = "list_reports"
  /\ \E dirExists \in BOOLEAN, n \in 0..MaxFiles :
       IF ~dirExists
       THEN Fatal("reports_dir_missing") /\ idx' = idx
       ELSE /\ nfiles' = n
            /\ UNCHANGED <<fatal, exitStatus>>
            /\ IF n = 0
               THEN /\ printed' = Append(printed, "No XML files found")
                    /\ pc' = "return"
                    /\ idx' = idx
               ELSE /\ printed' = printed
                    /\ pc' = "extract_xml_data"
                    /\ idx' = 1
  /\ UNCHANGED <<file, locals, exc, products, reqs, log, invoked, errs,
                 seen, counters, resolved, prevResolved, svars>>

\* __main__: an exception that leaves main() is printed
TopLevelExcept ==
  /\ pc = "top_except"
  /\ printed' = Append(printed, "An error occurred")
  /\ exitStatus' = ExitStatusOf(FALSE)
  /\ pc' = "exited"
  /\ UNCHANGED <<fatal, nfiles, idx, file, locals, exc, products, reqs, log,
                 invoked, errs, seen, counters, resolved, prevResolved, svars>>

\* main() returns and the script ends
MainReturn ==
  /\ pc = "return"
  /\ exitStatus' = ExitStatusOf(FALSE)
  /\ pc' = "exited"
  /\ UNCHANGED <<fatal, printed, nfiles, idx, file, locals, exc, products,
                 reqs, log, invoked, errs, seen, counters, resolved, prevResolved, svars>>

(* --------------------------- pure functions --------------------------- *)
Line(msg) == [msg |-> msg, status_code |-> None, content |-> ""]
Returned(v) == [exc |-> "none", value |-> v]
Raised(e) == [exc |-> e, value |-> None]

MinOf(S) == CHOOSE i \in S : \A j \in S : i <= j

\* extract_xml_data: <<product_name, engagement_name>>, or the exception
extract_xml_data(f) ==
  IF f.kind = "unreadable" THEN Raised("OSError")
  ELSE IF f.kind = "malformed" THEN Raised("ValueError")
  ELSE IF f.app = NoText THEN Raised("ValueError")
  ELSE IF f.scan = NoText THEN Raised("ValueError")
  ELSE Returned(<<f.app, f.scan>>)

\* a get_product_type_id that returns None where the code raises
get_product_type_id_NoRaise(response) ==
  IF response.status_code = StatusOK /\ response.results # <<>>
  THEN Returned(response.results[1])
  ELSE Returned(None)

\* get_product_type_id, given the response to the search
get_product_type_id(response) ==
  IF response.status_code = StatusOK /\ response.results # <<>>
  THEN Returned(response.results[1])
  ELSE Raised("Exception")

\* a search that takes the first product of the name, whatever its type
find_product_ByNameOnly(response, ptid) ==
  IF response.status_code = StatusOK /\ response.results # <<>>
  THEN response.results[1].id
  ELSE None

\* get_product_id, the search: id of the first result of the product type
find_product(response, ptid) ==
  IF response.status_code = StatusOK /\ response.results # <<>>
  THEN LET m == {i \in 1..Len(response.results) :
                   response.results[i].prod_type = ptid}
       IN IF m = {} THEN None ELSE response.results[MinOf(m)].id
  ELSE None

\* get_product_id, the creation: the new id, or the exception
created_product(response) ==
  IF response.status_code = StatusCreated
  THEN Returned(response.id)
  ELSE Raised("Exception")

\* get_engagement_id, given the response to the search
get_engagement_id(response) ==
  IF response.status_code = StatusOK /\ response.results # <<>>
  THEN response.results[1]
  ELSE None

\* sorted(results, key=updated, reverse=True): a stable sort, so tests of
\* equal 'updated' keep the order of the response
RECURSIVE InsertDesc(_, _)
InsertDesc(t, sorted) ==
  IF sorted = <<>> THEN <<t>>
  ELSE IF t.updated > Head(sorted).updated
       THEN <<t>> \o sorted
       ELSE <<Head(sorted)>> \o InsertDesc(t, Tail(sorted))

RECURSIVE SortedByUpdatedDesc(_)
SortedByUpdatedDesc(results) ==
  IF results = <<>> THEN <<>>
  ELSE InsertDesc(results[Len(results)],
                  SortedByUpdatedDesc(SubSeq(results, 1, Len(results) - 1)))

\* a get_latest_test_id that forgets to sort
get_latest_test_id_Unsorted(response) ==
  IF response.status_code = StatusOK /\ response.results # <<>>
  THEN response.results[1].id
  ELSE None

\* get_latest_test_id, given the response to the search
get_latest_test_id(response) ==
  IF response.status_code = StatusOK /\ response.results # <<>>
  THEN SortedByUpdatedDesc(response.results)[1].id
  ELSE None

\* the data of the import-scan request of the full variant
ImportData(ptn, pn, en) ==
  [scan_type |-> ScanType, product_type_name |-> ptn, product_name |-> pn,
   engagement_name |-> en, auto_create_context |-> "true",
   deduplication_on_engagement |-> "false", close_old_findings |-> "false"]

\* the data of the reimport-scan request
ReimportData(tid, ptn, pn, en) ==
  [scan_type |-> ScanType, product_type_name |-> ptn, product_name |-> pn,
   engagement_name |-> en, test |-> tid, auto_create_context |-> "true",
   deduplication_on_engagement |-> "false", close_old_findings |-> "false",
   do_not_reactivate |-> "true"]

\* a success test that accepts 200 as well
UploadSucceeded_Any200(status) == status \in {StatusOK, StatusCreated}

\* whether an upload response is the success the upload functions look for
UploadSucceeded(status) == status = StatusCreated

\* what import_scan prints for a response
import_scan_line(response) ==
  IF UploadSucceeded(response.status_code)
  THEN Line("Successfully imported")
  ELSE [msg |-> "Failed to import", status_code |-> response.status_code,
        content |-> response.content]

\* what reimport_scan prints for a response
reimport_scan_line(response) ==
  IF UploadSucceeded(response.status_code)
  THEN Line("Successfully reimported")
  ELSE [msg |-> "Failed to reimport", status_code |-> response.status_code,
        content |-> response.content]

\* main: where it goes after the engagement lookup
AfterEngagementLookup(eid) ==
  IF Truthy(eid) THEN "get_latest_test_id" ELSE "import_scan"

\* a dispatcher that imports even when a test was found
AfterTestLookup_AlwaysImport(tid) == "import_scan"

\* main: where it goes after the test lookup
AfterTestLookup(tid) ==
  IF Truthy(tid) THEN "reimport_scan" ELSE "import_scan"

\* a loop that catches ValueError only
IsException_ValueErrorOnly(e) == e = "ValueError"

\* the classes 'except Exception' catches
IsException(e) == e \in {"ValueError", "OSError", "RequestException", "Exception"}

Request(method, path, data) == [method |-> method, path |-> path, data |-> data]

(* ------------------------- per-report actions ------------------------- *)
PTypeResults == DistinctSeqs(1..MaxPTypes, MaxPTypes)
\* the backend lists engagements and tests in id order
EngagementResults == {[i \in 1..n |-> i] : n \in 0..MaxEngagements}
TestResults ==
  UNION {{[i \in 1..n |-> [id |-> i, updated |-> u[i]]] : u \in [1..n -> Stamps]}
           : n \in 0..MaxTests}

\* the backend's answer to GET products?name=: the products of that name
ProductsNamed(name) == SelectSeq(products, LAMBDA p : p.name = name)

\* an exception is raised inside the try block of the loop
Raise(e) ==
  /\ exc' = e
  /\ pc' = "except"

\* main: extract_xml_data and the "Processing" line
ExtractXmlData ==
  /\ pc = "extract_xml_data"
  /\ \E f \in Files :
       LET r == extract_xml_data(f)
       IN /\ file' = f
          /\ IF r.exc = "none"
             THEN /\ product_name' = r.value[1]
                  /\ engagement_name' = r.value[2]
                  /\ log' = Append(log, Line("Processing"))
                  /\ pc' = "get_product_type_id"
                  /\ UNCHANGED <<exc, errs>>
             ELSE /\ Raise(r.exc)
                  /\ errs' = errs \cup {"extract"}
                  /\ UNCHANGED <<product_name, engagement_name, log>>
  /\ UNCHANGED <<top, idx, prod_type_id, product_id, engagement_id, test_id,
                 products, reqs, invoked, seen, counters, resolved, prevResolved, svars>>

\* a get_product_id call ends: what it was asked, what it gave
ResolveRecord(ptid, pid, nBefore, nAfter, creating) ==
  [name |-> product_name, prod_type |-> ptid, id |-> pid,
   before |-> nBefore, after |-> nAfter, created |-> creating]

\* get_product_id: the product type lookup
GetProductTypeId ==
  /\ pc = "get_product_type_id"
  /\ reqs' = Append(reqs, Request("GET", "product_types",
                                  [name |-> product_type_name]))
  /\ \/ /\ Raise("RequestException")
        /\ errs' = errs \cup {"product_type_search_transport"}
        /\ UNCHANGED prod_type_id
     \/ \E st \in GetStatuses, res \in PTypeResults :
          LET response == [status_code |-> st,
                           results |-> IF st = StatusOK THEN res ELSE <<>>]
              r == get_product_type_id(response)
          IN /\ st = StatusOK \/ res = <<>>
             /\ errs' = IF st # StatusOK
                        THEN errs \cup {"product_type_search_status"}
                        ELSE IF res = <<>>
                        THEN errs \cup {"product_type_not_found"}
                        ELSE errs
             /\ IF r.exc = "none"
                THEN /\ prod_type_id' = r.value
                     /\ pc' = "search_product"
                     /\ exc' = exc
                ELSE /\ Raise(r.exc)
                     /\ UNCHANGED prod_type_id
  /\ resolved' =
       IF pc' = "except"
       THEN ResolveRecord(None, None, Len(products), Len(products), FALSE)
       ELSE resolved
  /\ UNCHANGED <<top, idx, file, product_name, engagement_name, product_id,
                 engagement_id, test_id, products, log, invoked, seen,
                 counters, prevResolved,
                 svars>>

\* get_product_id: the product search
SearchProduct ==
  /\ pc = "search_product"
  /\ reqs' = Append(reqs, Request("GET", "products", [name |-> product_name]))
  /\ \/ /\ Raise("RequestException")
        /\ errs' = errs \cup {"product_search_transport"}
        /\ resolved' = ResolveRecord(prod_type_id, None, Len(products),
                                     Len(products), FALSE)
        /\ UNCHANGED <<product_id, productSearch>>
     \/ \E st \in GetStatuses :
          LET response ==
                [status_code |-> st,
                 results |-> IF st = StatusOK THEN ProductsNamed(product_name)
                             ELSE <<>>]
              found == find_product(response, prod_type_id)
          IN /\ productSearch' = response
             /\ errs' = IF st = StatusOK THEN errs
                        ELSE errs \cup {"product_search_status"}
             /\ exc' = exc
             /\ IF found # None
                THEN /\ product_id' = found
                     /\ pc' = "get_engagement_id"
                     /\ resolved' =
                          ResolveRecord(prod_type_id, found, Len(products),
                                        Len(products), FALSE)
                ELSE /\ pc' = "create_product"
                     /\ UNCHANGED <<product_id, resolved>>
  /\ UNCHANGED <<top, idx, file, product_name, engagement_name, prod_type_id,
                 engagement_id, test_id, products, log, invoked,
                 engagementSearch, testSearch, upload, counters, prevResolved,
                 svars>>

\* get_product_id: the product creation
CreateProduct ==
  /\ pc = "create_product"
  /\ reqs' = Append(reqs, Request("POST", "products",
                                  [name |-> product_name,
                                   prod_type |-> prod_type_id,
                                   description |-> PlaceholderDescription]))
  /\ \/ /\ Raise("RequestException")
        /\ errs' = errs \cup {"product_create_transport"}
        /\ UNCHANGED <<product_id, products>>
     \/ \E st \in CreateStatuses :
          LET newId == Len(products) + 1
              r == created_product([status_code |-> st, id |-> newId])
          IN /\ st = StatusCreated => Len(products) < MaxProducts
             /\ products' =
                  IF st = StatusCreated
                  THEN Append(products, [id |-> newId, name |-> product_name,
                                         prod_type |-> prod_type_id])
                  ELSE products
             /\ IF r.exc = "none"
                THEN /\ product_id' = r.value
                     /\ pc' = "get_engagement_id"
                     /\ UNCHANGED <<exc, errs>>
                ELSE /\ Raise(r.exc)
                     /\ errs' = errs \cup {"product_create_status"}
                     /\ UNCHANGED product_id
  /\ resolved' = ResolveRecord(prod_type_id, product_id', Len(products),
                               Len(products'), TRUE)
  /\ UNCHANGED <<top, idx, file, product_name, engagement_name, prod_type_id,
                 engagement_id, test_id, log, invoked, seen, counters, prevResolved,
                 svars>>

\* main: get_engagement_id and the branch on its result
GetEngagementId ==
  /\ pc = "get_engagement_id"
  /\ reqs' = Append(reqs, Request("GET", "engagements",
                                  [product |-> product_id,
                                   name |-> engagement_name]))
  /\ \/ /\ Raise("RequestException")
        /\ errs' = errs \cup {"engagement_search_transport"}
        /\ UNCHANGED <<engagement_id, engagementSearch>>
     \/ \E st \in GetStatuses, res \in EngagementResults :
          LET response == [status_code |-> st,
                           results |-> IF st = StatusOK THEN res ELSE <<>>]
          IN /\ st = StatusOK \/ res = <<>>
             /\ engagementSearch' = response
             /\ engagement_id' = get_engagement_id(response)
             /\ errs' = IF st = StatusOK THEN errs
                        ELSE errs \cup {"engagement_search_status"}
             /\ exc' = exc
             /\ pc' = AfterEngagementLookup(engagement_id')
  /\ UNCHANGED <<top, idx, file, product_name, engagement_name, prod_type_id,
                 product_id, test_id, products, log, invoked, productSearch,
                 testSearch, upload, counters, resolved, prevResolved, svars>>

\* main: get_latest_test_id and the branch on its result
GetLatestTestId ==
  /\ pc = "get_latest_test_id"
  /\ reqs' = Append(reqs, Request("GET", "tests",
                                  [engagement |-> engagement_id,
                                   test_type_name |-> ScanType]))
  /\ \/ /\ Raise("RequestException")
        /\ errs' = errs \cup {"test_search_transport"}
        /\ UNCHANGED <<test_id, testSearch>>
     \/ \E st \in GetStatuses, res \in TestResults :
          LET response == [status_code |-> st,
                           results |-> IF st = StatusOK THEN res ELSE <<>>]
          IN /\ st = StatusOK \/ res = <<>>
             /\ testSearch' = response
             /\ test_id' = get_latest_test_id(response)
             /\ errs' = IF st = StatusOK THEN errs
                        ELSE errs \cup {"test_search_status"}
             /\ exc' = exc
             /\ pc' = AfterTestLookup(test_id')
  /\ UNCHANGED <<top, idx, file, product_name, engagement_name, prod_type_id,
                 product_id, engagement_id, products, log, invoked,
                 productSearch, engagementSearch, upload, counters,
                 resolved, prevResolved, svars>>

\* the outcomes of one upload: the file cannot be opened, the request
\* fails in transport, or a response arrives
UploadOutcomes ==
  {[outcome |-> "open_failed", status_code |-> None, content |-> ""],
   [outcome |-> "transport", status_code |-> None, content |-> ""]}
  \cup {[outcome |-> "response", status_code |-> StatusCreated, content |-> ""]}
  \cup [outcome : {"response"}, status_code : UploadStatuses \ {StatusCreated},
        content : Bodies]

\* import_scan, called from either CreateNew branch of main
ImportScan ==
  /\ pc = "import_scan"
  /\ invoked' = Append(invoked, "import_scan")
  /\ \E u \in UploadOutcomes :
       /\ upload' = u
       /\ reqs' = IF u.outcome = "open_failed" THEN reqs
                  ELSE Append(reqs, Request("POST", "import-scan",
                                ImportData(product_type_name, product_name,
                                           engagement_name)))
       /\ IF u.outcome = "response"
          THEN /\ log' = Append(log, import_scan_line(u))
               /\ errs' = IF u.status_code = StatusCreated THEN errs
                          ELSE errs \cup {"import_status"}
               /\ exc' = exc
               /\ pc' = "iter_end"
          ELSE /\ Raise(IF u.outcome = "open_failed" THEN "OSError"
                        ELSE "RequestException")
               /\ errs' = errs \cup {"import_raised"}
               /\ log' = log
  /\ UNCHANGED <<top, idx, file, locals, products, productSearch,
                 engagementSearch, testSearch, counters, resolved, prevResolved, svars>>

\* reimport_scan, called when an engagement and a test were found
ReimportScan ==
  /\ pc = "reimport_scan"
  /\ invoked' = Append(invoked, "reimport_scan")
  /\ \E u \in UploadOutcomes :
       /\ upload' = u
       /\ reqs' = IF u.outcome = "open_failed" THEN reqs
                  ELSE Append(reqs, Request("POST", "reimport-scan",
                                ReimportData(test_id, product_type_name,
                                             product_name, engagement_name)))
       /\ IF u.outcome = "response"
          THEN /\ log' = Append(log, reimport_scan_line(u))
               /\ errs' = IF u.status_code = StatusCreated THEN errs
                          ELSE errs \cup {"reimport_status"}
               /\ exc' = exc
               /\ pc' = "iter_end"
          ELSE /\ Raise(IF u.outcome = "open_failed" THEN "OSError"
                        ELSE "RequestException")
               /\ errs' = errs \cup {"reimport_raised"}
               /\ log' = log
  /\ UNCHANGED <<top, idx, file, locals, products, productSearch,
                 engagementSearch, testSearch, counters, resolved, prevResolved, svars>>

\* main: the except clauses of the loop body
ExceptClause ==
  /\ pc = "except"
  /\ IF exc = "ValueError"
     THEN /\ log' = Append(log, Line("Error processing"))
          /\ failed' = failed + 1
          /\ pc' = "iter_end"
     ELSE IF IsException(exc)
     THEN /\ log' = Append(log, Line("Unexpected error processing"))
          /\ failed' = failed + 1
          /\ pc' = "iter_end"
     ELSE /\ pc' = "top_except"
          /\ UNCHANGED <<log, failed>>
  /\ UNCHANGED <<top, idx, file, locals, exc, products, reqs, invoked, errs,
                 seen, visited, resolved, prevResolved, svars>>

\* the state every iteration starts from
ResetReport ==
  /\ file' = NoFile
  /\ product_name' = NoText
  /\ engagement_name' = NoText
  /\ prod_type_id' = None
  /\ product_id' = None
  /\ engagement_id' = None
  /\ test_id' = None
  /\ exc' = "none"
  /\ reqs' = <<>>
  /\ log' = <<>>
  /\ invoked' = <<>>
  /\ errs' = {}
  /\ productSearch' = NoResponse
  /\ engagementSearch' = NoResponse
  /\ testSearch' = NoResponse
  /\ upload' = NoUpload
  /\ resolved' = NoResolve

\* main: 'continue', or the end of the loop body: on to the next file
LoopStep ==
  /\ pc = "iter_end"
  /\ visited' = visited + 1
  /\ IF idx < nfiles
     THEN idx' = idx + 1 /\ pc' = "extract_xml_data"
     ELSE idx' = idx /\ pc' = "return"
  /\ ResetReport
  /\ prevResolved' = resolved
  /\ UNCHANGED <<top, products, failed>>

LoopNext == LoopStep /\ UNCHANGED svars

(* ------------------ the simple variant, report by report ------------- *)
\* The startup code of defect_dojo_importer.py is that of the full variant line
\* for line, so the simple variant is run on the same listing: it handles each
\* report right after the full variant has, reading the same file, and its
\* upload meets the outcome the full variant's upload met when there was one.

\* extract_xml_data of the simple variant
s_extract_xml_data(f) ==
  IF f.kind = "unreadable" THEN Raised("OSError")
  ELSE IF f.kind = "malformed" THEN Raised("ValueError")
  ELSE IF f.app = NoText THEN Raised("ValueError")
  ELSE IF f.scan = NoText THEN Raised("ValueError")
  ELSE Returned(<<f.app, f.scan>>)

\* an import request with the two names exchanged
s_ImportData_Swapped(ptn, pn, en) ==
  [scan_type |-> ScanType, product_type_name |-> ptn, product_name |-> en,
   engagement_name |-> pn, auto_create_context |-> "true",
   deduplication_on_engagement |-> "true", close_old_findings |-> "true"]

\* the data of the import-scan request of the simple variant
s_ImportData(ptn, pn, en) ==
  [scan_type |-> ScanType, product_type_name |-> ptn, product_name |-> pn,
   engagement_name |-> en, auto_create_context |-> "true",
   deduplication_on_engagement |-> "true", close_old_findings |-> "true"]

\* what the simple import_scan prints for a response
s_import_scan_line(response) ==
  IF response.status_code = StatusCreated
  THEN Line("Successfully imported")
  ELSE [msg |-> "Failed to import", status_code |-> response.status_code,
        content |-> response.content]

\* the classes the loop of the simple variant catches
s_IsCaught(e) == e = "ValueError"

S_ExtractXmlData ==
  /\ s_pc = "s_extract_xml_data"
  /\ pc = "iter_end"
  /\ LET r == s_extract_xml_data(file)
     IN IF r.exc = "none"
        THEN /\ s_names' = r.value
             /\ s_log' = Append(s_log, Line("Importing"))
             /\ s_pc' = "s_import_scan"
             /\ s_exc' = s_exc
        ELSE /\ s_exc' = r.exc
             /\ s_pc' = "s_except"
             /\ UNCHANGED <<s_names, s_log>>
  /\ UNCHANGED <<pc, top, idx, file, locals, exc, products, reqs, log, invoked,
                 errs, seen, counters, resolved, prevResolved, s_reqs, s_upload>>

S_ImportScan ==
  /\ s_pc = "s_import_scan"
  /\ \E u \in UploadOutcomes :
       /\ upload.outcome # "none" => u = upload
       /\ s_upload' = u
       /\ s_reqs' = IF u.outcome = "open_failed" THEN s_reqs
                    ELSE Append(s_reqs, Request("POST", "import-scan",
                                  s_ImportData(product_type_name, s_names[1],
                                               s_names[2])))
       /\ IF u.outcome = "response"
          THEN /\ s_log' = Append(s_log, s_import_scan_line(u))
               /\ s_exc' = s_exc
               /\ s_pc' = "s_iter_end"
          ELSE /\ s_exc' = IF u.outcome = "open_failed" THEN "OSError"
                           ELSE "RequestException"
               /\ s_log' = s_log
               /\ s_pc' = "s_except"
  /\ UNCHANGED <<pc, top, idx, file, locals, exc, products, reqs, log, invoked,
                 errs, seen, counters, resolved, prevResolved, s_names>>

\* the one except clause of the simple loop; anything else leaves main()
S_ExceptClause ==
  /\ s_pc = "s_except"
  /\ IF s_IsCaught(s_exc)
     THEN /\ s_log' = Append(s_log, Line("Error processing"))
          /\ s_pc' = "s_iter_end"
     ELSE /\ s_log' = s_log
          /\ s_pc' = "s_top_except"
  /\ UNCHANGED <<pc, top, idx, file, locals, exc, products, reqs, log, invoked,
                 errs, seen, counters, resolved, prevResolved, s_exc, s_names,
                 s_reqs, s_upload>>

\* __main__ of the simple variant: the run ends with the files left undone
S_TopLevelExcept ==
  /\ s_pc = "s_top_except"
  /\ s_log' = Append(s_log, Line("An error occurred"))
  /\ s_pc' = "s_exited"
  /\ UNCHANGED <<pc, top, idx, file, locals, exc, products, reqs, log, invoked,
                 errs, seen, counters, resolved, prevResolved, s_exc, s_names,
                 s_reqs, s_upload>>

\* both variants move to the next file; once the simple variant has left its
\* loop there is nothing left to compare and the paired run ends
PairLoopNext ==
  /\ s_pc = "s_iter_end"
  /\ LoopStep
  /\ s_pc' = IF idx < nfiles THEN "s_extract_xml_data" ELSE "s_exited"
  /\ s_exc' = "none"
  /\ s_names' = <<NoText, NoText>>
  /\ s_reqs' = <<>>
  /\ s_log' = <<>>
  /\ s_upload' = NoUpload

(* --------------------------- specification ---------------------------- *)
\* the backend starts with no product, or with one
InitProducts ==
  {<<>>} \cup {<<p>> : p \in [id : {1}, name : ProductNames,
                               prod_type : 1..MaxPTypes]}

InitFull ==
  /\ pc = "load_settings"
  /\ fatal = "none"
  /\ printed = <<>>
  /\ exitStatus = None
  /\ nfiles = 0
  /\ idx = 0
  /\ file = NoFile
  /\ product_name = NoText
  /\ engagement_name = NoText
  /\ prod_type_id = None
  /\ product_id = None
  /\ engagement_id = None
  /\ test_id = None
  /\ exc = "none"
  /\ products \in InitProducts
  /\ reqs = <<>>
  /\ log = <<>>
  /\ invoked = <<>>
  /\ errs = {}
  /\ productSearch = NoResponse
  /\ engagementSearch = NoResponse
  /\ testSearch = NoResponse
  /\ upload = NoUpload
  /\ visited = 0
  /\ failed = 0
  /\ resolved = NoResolve
  /\ prevResolved = NoResolve

InitSimple(start) ==
  /\ s_pc = start
  /\ s_exc = "none"
  /\ s_names = <<NoText, NoText>>
  /\ s_reqs = <<>>
  /\ s_log = <<>>
  /\ s_upload = NoUpload

Init == InitFull /\ InitSimple("s_off")

Next ==
  \/ LoadSettings
  \/ Authenticate
  \/ ReadConfiguration
  \/ ListReports
  \/ ExtractXmlData
  \/ GetProductTypeId
  \/ SearchProduct
  \/ CreateProduct
  \/ GetEngagementId
  \/ GetLatestTestId
  \/ ImportScan
  \/ ReimportScan
  \/ ExceptClause
  \/ LoopNext
  \/ MainReturn
  \/ TopLevelExcept

Spec == Init /\ [][Next]_vars

PairInit == InitFull /\ InitSimple("s_extract_xml_data")

PairNext ==
  \/ LoadSettings
  \/ Authenticate
  \/ ReadConfiguration
  \/ ListReports
  \/ ExtractXmlData
  \/ GetProductTypeId
  \/ SearchProduct
  \/ CreateProduct
  \/ GetEngagementId
  \/ GetLatestTestId
  \/ ImportScan
  \/ ReimportScan
  \/ ExceptClause
  \/ S_ExtractXmlData
  \/ S_ImportScan
  \/ S_ExceptClause
  \/ S_TopLevelExcept
  \/ PairLoopNext
  \/ MainReturn
  \/ TopLevelExcept

PairSpec == PairInit /\ [][PairNext]_vars

(* ------------------------------ properties ---------------------------- *)
Found(response) ==
  response.status_code = StatusOK /\ response.results # <<>>

ReqsTo(rs, method, path) ==
  SelectSeq(rs, LAMBDA r : r.method = method /\ r.path = path)

UploadReqs(rs) ==
  SelectSeq(rs, LAMBDA r : r.path \in {"import-scan", "reimport-scan"})

Msgs(lines) == {lines[i].msg : i \in 1..Len(lines)}

ErrorMsgs ==
  {"Error processing", "Unexpected error processing", "Failed to import",
   "Failed to reimport"}

\* the report got through extraction and product resolution
Resolved == product_id # None

\* the engagement lookup and the test lookup, where made, returned
LookupsReturned ==
  errs \cap {"engagement_search_transport", "test_search_transport"} = {}

DecisionTable ==
  /\ Len(invoked) = 1
  /\ invoked[1] = "reimport_scan" <=> Found(engagementSearch) /\ Found(testSearch)
  /\ invoked[1] = "import_scan" <=> ~(Found(engagementSearch) /\ Found(testSearch))

\* C1 as stated: every report that passes extraction and product resolution
\* gets exactly one upload, the reimport iff an engagement and a test were
\* found, the import otherwise.
C1_Original ==
  (pc = "iter_end" /\ Resolved) => DecisionTable

\* C1 amended: every report that passes extraction and product resolution and
\* whose engagement lookup and test lookup return without raising gets exactly
\* one upload, chosen by the decision table; no report gets two uploads, and
\* the test lookup is made only when an engagement was found.
C1_Dispatch ==
  /\ Len(invoked) <= 1
  /\ (pc = "iter_end" /\ Resolved /\ LookupsReturned) => DecisionTable
  /\ ReqsTo(reqs, "GET", "tests") # <<>> => Found(engagementSearch)

\* C1: a report with an engagement and a test found, reimported
C1_Witness ==
  /\ pc = "iter_end"
  /\ Resolved
  /\ Found(engagementSearch) /\ Found(testSearch)
  /\ invoked = <<"reimport_scan">>

\* C2: a failure at any stage of one report is caught and logged for that
\* report and never leaves the loop; every file of the listing is visited
\* before main returns, and a report whose stages all succeed is uploaded
\* whatever happened to the reports before it.
C2_BatchIsolation ==
  /\ pc = "top_except" => fatal # "none"
  /\ pc \in {"return", "exited"} /\ fatal = "none" => visited = nfiles
  /\ pc \in {"extract_xml_data", "except"} => visited = idx - 1
  /\ (pc = "iter_end" /\ exc # "none") =>
        Msgs(log) \cap {"Error processing", "Unexpected error processing"} # {}
  /\ (pc = "iter_end" /\ exc = "none") =>
        /\ Len(UploadReqs(reqs)) = 1
        /\ Msgs(log) \cap {"Successfully imported", "Successfully reimported",
                           "Failed to import", "Failed to reimport"} # {}

\* C2: a report imported after an earlier report of the batch failed
C2_Witness ==
  /\ pc = "iter_end"
  /\ failed >= 1
  /\ exc = "none"
  /\ "Successfully imported" \in Msgs(log)

\* C3: when the test search returns tests, the identity get_latest_test_id
\* returns is that of a returned test with the greatest 'updated' among them,
\* and the upload is a reimport carrying exactly that identity.
C3_LatestTest ==
  Found(testSearch) =>
    /\ \E i \in 1..Len(testSearch.results) :
         /\ testSearch.results[i].id = test_id
         /\ \A j \in 1..Len(testSearch.results) :
              testSearch.results[j].updated <= testSearch.results[i].updated
    /\ ReqsTo(reqs, "POST", "import-scan") = <<>>
    /\ \A i \in 1..Len(reqs) :
         reqs[i].path = "reimport-scan" => reqs[i].data.test = test_id
    /\ upload.outcome \in {"transport", "response"} =>
         Len(ReqsTo(reqs, "POST", "reimport-scan")) = 1

\* C3: several tests returned, the latest not the first, reimport sent
C3_Witness ==
  /\ Len(testSearch.results) >= 2
  /\ testSearch.results[1].id # test_id
  /\ Len(ReqsTo(reqs, "POST", "reimport-scan")) = 1

\* the product search returned products, none of the resolved product type
OnlyOtherTypes ==
  /\ Found(productSearch)
  /\ \A i \in 1..Len(productSearch.results) :
       productSearch.results[i].prod_type # prod_type_id

\* get_product_id has returned or raised
ResolutionOver == pc \notin {"search_product", "create_product"}

CreationRequested ==
  \E i \in 1..Len(reqs) :
    /\ reqs[i].method = "POST" /\ reqs[i].path = "products"
    /\ reqs[i].data.name = product_name
    /\ reqs[i].data.prod_type = prod_type_id

\* C4 as stated: when the search returns only products of other product
\* types, get_product_id returns none of their ids, requests the creation with
\* the name and the resolved product type, and returns the new product's id.
C4_Original ==
  (OnlyOtherTypes /\ ResolutionOver) =>
    /\ CreationRequested
    /\ product_id # None
    /\ \A i \in 1..Len(productSearch.results) :
         productSearch.results[i].id # product_id

\* C4 amended: in that case get_product_id returns none of those ids and
\* requests the creation with the name and the resolved product type; when the
\* creation is answered 201 it returns the id of the product just created,
\* and on any other answer it raises instead of returning.
C4_NoCrossTypeReuse ==
  (OnlyOtherTypes /\ ResolutionOver) =>
    /\ CreationRequested
    /\ \A i \in 1..Len(productSearch.results) :
         productSearch.results[i].id # product_id
    /\ resolved.created
    /\ IF resolved.after > resolved.before
       THEN /\ product_id = resolved.after
            /\ products[product_id] =
                 [id |-> product_id, name |-> product_name,
                  prod_type |-> prod_type_id]
       ELSE product_id = None /\ exc # "none" /\ invoked = <<>>

\* C4: only products of other types returned, a new product created
C4_Witness ==
  /\ OnlyOtherTypes
  /\ pc = "get_engagement_id"
  /\ product_id = Len(products)
  /\ resolved.created

\* C5 as stated: a second get_product_id call for the same names, the backend
\* unchanged since the first returned, returns the same identity and requests
\* no creation, whatever response the product search gets.
C5_Original ==
  ( /\ ResolutionOver
    /\ prevResolved.id # None
    /\ resolved.name = prevResolved.name
    /\ resolved.prod_type = prevResolved.prod_type
    /\ resolved.before = prevResolved.after
    /\ productSearch.status_code # None
    /\ "product_create_transport" \notin errs )
  => (resolved.id = prevResolved.id /\ ~resolved.created)

ProductTypeMissing == "product_type_not_found" \in errs

\* C6: when the product-type search returns no result, the report ends there:
\* the one request made for it is that search, no upload is called, the failure
\* is logged and the loop goes on; no request ever creates a product type.
C6_ProductTypeHardStop ==
  /\ ProductTypeMissing =>
       /\ pc \in {"except", "iter_end"}
       /\ reqs = <<Request("GET", "product_types", [name |-> product_type_name])>>
       /\ invoked = <<>>
       /\ products = SubSeq(products, 1, resolved.before)
       /\ pc = "iter_end" => "Unexpected error processing" \in Msgs(log)
  /\ \A i \in 1..Len(reqs) :
       reqs[i].path = "product_types" => reqs[i].method = "GET"

\* C6: a report stopped by a missing product type, more files to come
C6_Witness ==
  /\ ProductTypeMissing
  /\ pc = "iter_end"
  /\ idx < nfiles

Refused == upload.outcome = "response" /\ upload.status_code # StatusCreated

\* C7: an upload answered with a status other than 201 does not raise: the
\* failure is printed with the status and the body, the upload is requested
\* once, and the loop is at the end of that iteration, ready for the next file.
C7_UploadFailureNonFatal ==
  Refused =>
    /\ pc = "iter_end"
    /\ exc = "none"
    /\ Len(invoked) = 1
    /\ Len(UploadReqs(reqs)) = 1
    /\ log[Len(log)] =
         [msg |-> IF invoked[1] = "import_scan" THEN "Failed to import"
                  ELSE "Failed to reimport",
          status_code |-> upload.status_code, content |-> upload.content]

\* C7: a reimport answered 200, more files to come
C7_Witness ==
  /\ Refused
  /\ upload.status_code = StatusOK
  /\ invoked = <<"reimport_scan">>
  /\ idx < nfiles

\* C8 as stated: a fatal startup condition ends the run with a printed
\* diagnostic, no report processed, and a non-zero exit status.
C8_Original ==
  (pc = "exited" /\ fatal # "none") =>
    /\ "An error occurred" \in Range(printed)
    /\ visited = 0 /\ idx = 0 /\ reqs = <<>>
    /\ exitStatus # 0

\* C9 as stated: every error met while a report is processed, a non-success
\* answer to a search included, leaves a log line for that report.
C9_Original ==
  (pc = "iter_end" /\ errs # {}) => Msgs(log) \cap ErrorMsgs # {}

\* both variants are through with the current report, and the full variant
\* decided CreateNew for it
BothDone == pc = "iter_end" /\ s_pc \in {"s_iter_end", "s_top_except"}
CreateNew == invoked = <<"import_scan">>

SharedFields(d) ==
  <<d.scan_type, d.product_type_name, d.product_name, d.engagement_name,
    d.auto_create_context>>

====
